---- MODULE Spec2Model ----
(***************************************************************************)
(* Conflict-detection engine of USPTO_TRADEMARK_SEARCH.                    *)
(*                                                                         *)
(* Two engine scripts write a CSV report:                                  *)
(*   "batch"   = rapidapi_batchtrademarksearch.py                          *)
(*   "byclass" = rapidapi_trademarksearch_byclass.py                       *)
(* and two dashboards recompute a verdict per target from that report:     *)
(*   "original" = trademark_dashboard.py                                   *)
(*   "fixed"    = trademark_dashboard_fixed.py                             *)
(*                                                                         *)
(* Strings are TLA+ strings.  The em dash of the sentinel texts is written *)
(* "--" (the module is ASCII); emoji of the verdict labels are dropped.    *)
(* rapidfuzz is an external library: its three ratios are the table fuzz,  *)
(* a function of (target, mark text) with integer values in 0..100.        *)
(***************************************************************************)
EXTENDS Integers, Sequences, FiniteSets, TLC

VARIABLES prog, search_pairs, fuzz, pc, idx, checked_names, header, report,
          calls, response, agg, summary, tags, tool

vars == <<prog, search_pairs, fuzz, pc, idx, checked_names, header, report,
          calls, response, agg, summary, tags, tool>>

(***************************************************************************)
(* Bounds of the model.                                                    *)
(***************************************************************************)
MaxPairs == 2
MaxItems == 2
MaxAggItems == 4
MaxRows == 3
MaxWords == 3
MaxExtra == 2
MaxNames == 3

(***************************************************************************)
(* Program constants.                                                      *)
(***************************************************************************)
FUZZY_THRESHOLD == 75
MAX_RESULTS_PER_SEARCH == 50
DashThreshold == 75
ExactScore == 100
DescLimit == 200

Progs == {"batch", "byclass"}

\* top_matches slice: [:3] in the batch script, [:10] in the class-aware one
TopK(p) == IF p = "batch" THEN 3 ELSE 10

target_classes == <<"35", "41", "42">>

(***************************************************************************)
(* Python string primitives.                                               *)
(***************************************************************************)
Range(s) == {s[k] : k \in DOMAIN s}

Min(a, b) == IF a < b THEN a ELSE b

Upper == <<"A","B","C","D","E","F","G","H","I","J","K","L","M",
           "N","O","P","Q","R","S","T","U","V","W","X","Y","Z">>
LowerOf == <<"a","b","c","d","e","f","g","h","i","j","k","l","m",
             "n","o","p","q","r","s","t","u","v","w","x","y","z">>

\* str.lower() on one character
LowerChar(c) ==
    IF \E k \in 1..26 : Upper[k] = c
    THEN LowerOf[CHOOSE k \in 1..26 : Upper[k] = c]
    ELSE c

\* str.lower(): every character lower-cased; the string is halved so that
\* long descriptions stay within the evaluation depth
RECURSIVE Lower(_)
Lower(s) ==
    IF Len(s) = 0 THEN ""
    ELSE IF Len(s) = 1 THEN LowerChar(s)
    ELSE Lower(SubSeq(s, 1, Len(s) \div 2))
         \o Lower(SubSeq(s, Len(s) \div 2 + 1, Len(s)))

\* str.strip(): leading and trailing blanks removed
RECURSIVE LStrip(_)
LStrip(s) ==
    IF Len(s) > 0 /\ SubSeq(s, 1, 1) = " " THEN LStrip(SubSeq(s, 2, Len(s)))
    ELSE s

RECURSIVE RStrip(_)
RStrip(s) ==
    IF Len(s) > 0 /\ SubSeq(s, Len(s), Len(s)) = " "
    THEN RStrip(SubSeq(s, 1, Len(s) - 1))
    ELSE s

Strip(s) == LStrip(RStrip(s))

\* Python "sub in s"
Contains(s, sub) ==
    \E k \in 1..(Len(s) - Len(sub) + 1) : SubSeq(s, k, k + Len(sub) - 1) = sub

\* ", ".join(list)
RECURSIVE Join(_)
Join(l) ==
    IF Len(l) = 0 THEN ""
    ELSE IF Len(l) = 1 THEN l[1]
    ELSE l[1] \o ", " \o Join(Tail(l))

(***************************************************************************)
(* Class inference of the class-aware script.                              *)
(***************************************************************************)
Kw35 == <<"advertising", "business", "management", "consultancy", "marketing">>
Kw41 == <<"education", "training", "entertainment", "teaching", "workshop",
          "seminar">>
Kw42 == <<"technology", "software", "computer", "research", "scientific",
          "development">>

AnyWord(dl, words) == \E k \in DOMAIN words : Contains(dl, words[k])

\* faulty variant of ExplicitClass: an explicit mention counts only next
\* to a position marker
ExplicitClass_NeedsPosition(dl, c) ==
    Contains(dl, "position 1") /\ Contains(dl, "class " \o c)

\* f"class {class_num}" in description_lower or
\* f"international class {class_num}" in description_lower
ExplicitClass(dl, c) ==
    Contains(dl, "class " \o c) \/ Contains(dl, "international class " \o c)

\* faulty variant of AppendNew: the membership test is lost
AppendNew_Always(classes, c) == Append(classes, c)

\* if "35" not in classes: classes.append("35")
AppendNew(classes, c) == IF c \in Range(classes) THEN classes ELSE Append(classes, c)

extract_classes_from_description(description) ==
    IF description = "" THEN <<>>
    ELSE
      LET dl == Lower(description)
          explicit == SelectSeq(target_classes, LAMBDA c : ExplicitClass(dl, c))
          c35 == IF AnyWord(dl, Kw35) THEN AppendNew(explicit, "35") ELSE explicit
          c41 == IF AnyWord(dl, Kw41) THEN AppendNew(c35, "41") ELSE c35
          c42 == IF AnyWord(dl, Kw42) THEN AppendNew(c41, "42") ELSE c41
      IN IF Contains(dl, "position 1") THEN c42 ELSE explicit

relevant_terms == <<"mobile", "intent", "ai", "artificial intelligence",
                    "machine learning", "technology", "transformation",
                    "digital", "consulting", "education", "training", "smart",
                    "intelligent", "learning", "prediction">>

is_related_to_mei(description) ==
    IF description = "" THEN FALSE
    ELSE AnyWord(Lower(description), relevant_terms)

relevant_class_match(classes_found) ==
    \E k \in DOMAIN classes_found : classes_found[k] \in Range(target_classes)

\* faulty variant of description_excerpt: the limit counted as reached at
\* DescLimit characters
description_excerpt_AtLimit(description) ==
    IF Len(description) >= DescLimit
    THEN SubSeq(description, 1, DescLimit) \o "..."
    ELSE description

\* description[:200] + "..." if len(description) > 200 else description
description_excerpt(description) ==
    IF Len(description) > DescLimit
    THEN SubSeq(description, 1, DescLimit) \o "..."
    ELSE description

(***************************************************************************)
(* The provider: candidate records and responses.                          *)
(***************************************************************************)
Targets == {"MEI", "ERA"}
Stems == {"MEI", "EXACT"}
Marks == {"MEI", "MERA"}

Candidate(k, st, sn, rn, d) ==
    [keyword |-> k, status_label |-> st, serial_number |-> sn,
     registration_number |-> rn, description |-> d]

CandidateSet ==
    { Candidate("MEI", "Live/Registered", "S1", "R1", "Class 42 AI software"),
      Candidate("MEI", "Live/Pending", "S2", "", ""),
      Candidate("MERA", "Live/Registered", "S3", "R3", "Position 1 marketing") }

SeqsUpTo(S, n) == UNION {[1..k -> S] : k \in 0..n}

\* fault: requests.get raised ("transport"), response.json() raised
\* ("parse"), or neither ("none")
Response(f, st, its) == [fault |-> f, status |-> st, items |-> its]

Responses(n) ==
    {Response("none", 200, its) : its \in SeqsUpTo(CandidateSet, n)}
    \cup {Response("none", 401, <<>>), Response("none", 500, <<>>),
          Response("transport", 0, <<>>), Response("parse", 200, <<>>)}

\* the tags of every candidate of the universe, computed once
ClassesOf == [c \in CandidateSet |-> extract_classes_from_description(c.description)]
MeiOf == [c \in CandidateSet |-> is_related_to_mei(c.description)]
ExcerptOf == [c \in CandidateSet |-> description_excerpt(c.description)]
LowerName == [n \in Targets \cup Marks |-> Lower(n)]

\* f"-- API Error {response.status_code} --"
ApiErrorText(code) == "-- API Error " \o ToString(code) \o " --"

ErrorText(resp) ==
    IF resp.fault = "transport" THEN "ConnectionError" ELSE "JSONDecodeError"

(***************************************************************************)
(* rapidfuzz scores: fuzz[<<target.lower(), mark.lower()>>] is the triple  *)
(* <<token_sort_ratio, partial_ratio, token_set_ratio>>.                   *)
(***************************************************************************)
ScoreTriples == {<<33, 33, 33>>, <<60, 74, 70>>, <<75, 70, 60>>, <<100, 100, 100>>}

FuzzKeys(ts) == {<<LowerName[t], LowerName[m]>> : t \in ts, m \in Marks}

RunTable ==
    [k \in FuzzKeys(Targets) |->
        IF k = <<"mei", "mei">> THEN <<100, 100, 100>>
        ELSE IF k = <<"mei", "mera">> THEN <<60, 74, 70>>
        ELSE IF k = <<"era", "mei">> THEN <<33, 33, 33>>
        ELSE <<75, 70, 60>>]

\* faulty variant of Max3: the first component alone
Max3_First(a, b, c) == a

\* max(score_1, score_2, score_3)
Max3(a, b, c) ==
    IF a >= b /\ a >= c THEN a ELSE IF b >= c THEN b ELSE c

final_score(target_name, mark_name) ==
    LET s == fuzz[<<LowerName[target_name], LowerName[mark_name]>>]
    IN Max3(s[1], s[2], s[3])

(***************************************************************************)
(* Report rows.  kind is not a CSV column: it records which ConflictEntry  *)
(* the writing statement stands for.                                       *)
(***************************************************************************)
BatchHeader == <<"Target Name", "Search Stem", "Matched Mark", "Score",
                 "Status", "Serial Number">>

ByclassHeader == <<"Target Name", "Search Method", "Matched Mark", "Score",
                   "Status", "Serial Number", "Registration Number",
                   "Inferred Classes", "Relevant Class Match", "MEI Related",
                   "Description">>

NoMatchesText == "-- No matches --"
NoTrademarksText == "-- No trademarks found --"

YesNo(b) == IF b THEN "Yes" ELSE "No"

BatchRow(t, s, m, sc, st, sn, k) ==
    [target |-> t, stem |-> s, mark |-> m, score |-> sc, status |-> st,
     serial |-> sn, kind |-> k]

ByclassRow(t, s, m, sc, st, sn, rn, cl, rel, mei, d, k) ==
    [target |-> t, stem |-> s, mark |-> m, score |-> sc, status |-> st,
     serial |-> sn, registration |-> rn, classes |-> cl, relevant |-> rel,
     mei |-> mei, description |-> d, kind |-> k]

SentinelRow(p, t, s, text, k) ==
    IF p = "batch" THEN BatchRow(t, s, text, 0, "", "", k)
    ELSE ByclassRow(t, s, text, 0, "", "", "", "", "No", "No", "", k)

ExactRow(p, t, c) ==
    IF p = "batch"
    THEN BatchRow(t, "EXACT", c.keyword, ExactScore, c.status_label,
                  c.serial_number, "Exact")
    ELSE LET classes_found == ClassesOf[c]
         IN ByclassRow(t, "EXACT", c.keyword, ExactScore, c.status_label,
                       c.serial_number, c.registration_number,
                       Join(classes_found),
                       YesNo(relevant_class_match(classes_found)),
                       YesNo(MeiOf[c]), ExcerptOf[c], "Exact")

RECURSIVE MapExactRow(_, _, _)
MapExactRow(p, t, its) ==
    IF Len(its) = 0 THEN <<>>
    ELSE <<ExactRow(p, t, Head(its))>> \o MapExactRow(p, t, Tail(its))

\* rows the exact-match loop body appends for one target
ExactRows(p, t, resp) ==
    IF resp.fault # "none"
    THEN <<SentinelRow(p, t, "EXACT", "-- Error: " \o ErrorText(resp) \o " --",
                       "ProviderError")>>
    ELSE IF resp.status = 200
    THEN IF Len(resp.items) > 0
         THEN IF p = "batch" THEN <<ExactRow(p, t, resp.items[1])>>
              ELSE MapExactRow(p, t, resp.items)
         ELSE <<SentinelRow(p, t, "EXACT", NoMatchesText, "NoMatch")>>
    ELSE <<SentinelRow(p, t, "EXACT", ApiErrorText(resp.status),
                       "ProviderError")>>

\* the batch script has no try/except: an exception ends the run
Raises(p, resp) == p = "batch" /\ resp.fault # "none"

(***************************************************************************)
(* Per-pair aggregation: scoring, threshold, sort, dedup, top-K merge.     *)
(***************************************************************************)
BoolInt(b) == IF b THEN 1 ELSE 0

\* one element of fuzzy_all; the batch script computes no class tags
ScoreEntry(p, target_name, entry) ==
    LET classes_found == IF p = "batch" THEN <<>> ELSE ClassesOf[entry]
    IN [mark |-> entry.keyword,
        score |-> final_score(target_name, entry.keyword),
        status |-> entry.status_label,
        serial |-> entry.serial_number,
        registration |-> IF p = "batch" THEN "" ELSE entry.registration_number,
        classes |-> classes_found,
        relevant |-> p # "batch" /\ relevant_class_match(classes_found),
        mei |-> p # "batch" /\ MeiOf[entry],
        excerpt |-> IF p = "batch" THEN "" ELSE ExcerptOf[entry]]

\* fuzzy_all: one element per result, in the provider's order
ScoreAll(p, target_name, results) ==
    [k \in DOMAIN results |-> ScoreEntry(p, target_name, results[k])]

\* faulty variant of IsHit: the bound made exclusive
IsHit_Exclusive(m) == m.score > FUZZY_THRESHOLD

\* match for match in fuzzy_all if match[1] >= FUZZY_THRESHOLD
IsHit(m) == m.score >= FUZZY_THRESHOLD

\* faulty variant of HitsKey: the tie-breakers are lost
HitsKey_ScoreOnly(p, m) == <<0 - m.score>>

\* key=lambda x: (-x[1], -int(x[6]), -int(x[7])); the batch script sorts
\* its hits by key=lambda x: -x[1]
HitsKey(p, m) ==
    IF p = "batch" THEN <<0 - m.score>>
    ELSE <<0 - m.score, 0 - BoolInt(m.relevant), 0 - BoolInt(m.mei)>>

\* key=lambda x: -x[1]
TopKey(p, m) == <<0 - m.score>>

\* Python tuple comparison a < b
RECURSIVE TupleLess(_, _)
TupleLess(a, b) ==
    IF Len(a) = 0 \/ Len(b) = 0 THEN Len(a) < Len(b)
    ELSE IF Head(a) # Head(b) THEN Head(a) < Head(b)
    ELSE TupleLess(Tail(a), Tail(b))

\* stable sort of records [key, val] by key: the elements of the least
\* key in their given order, then the others sorted the same way
RECURSIVE StableSort(_)
StableSort(l) ==
    IF Len(l) = 0 THEN <<>>
    ELSE LET keys == {l[k].key : k \in DOMAIN l}
             least == CHOOSE m \in keys : \A o \in keys : ~TupleLess(o, m)
         IN SelectSeq(l, LAMBDA x : x.key = least)
            \o StableSort(SelectSeq(l, LAMBDA x : x.key # least))

\* faulty variant of SortHits: the hits stay in provider order
SortHits_Unsorted(p, l) == l

\* sorted(l, key=...) / list.sort(key=...): stable
SortHits(p, l) ==
    LET keyed == [k \in DOMAIN l |-> [key |-> HitsKey(p, l[k]), val |-> l[k]]]
        out == StableSort(keyed)
    IN [k \in DOMAIN out |-> out[k].val]

SortTop(p, l) ==
    LET keyed == [k \in DOMAIN l |-> [key |-> TopKey(p, l[k]), val |-> l[k]]]
        out == StableSort(keyed)
    IN [k \in DOMAIN out |-> out[k].val]

\* the seen / deduped_matches loop: first occurrence of a mark text wins
RECURSIVE Dedup(_, _)
Dedup(l, seen) ==
    IF Len(l) = 0 THEN <<>>
    ELSE LET first == Head(l)
             others == SelectSeq(l, LAMBDA x : x.mark # first.mark)
         IN IF first.mark \in seen THEN Dedup(others, seen)
            ELSE <<first>> \o Dedup(others, seen \cup {first.mark})

\* faulty variant of deduped_matches: seen is not reset between two runs
\* of the loop body
deduped_matches_SeenKept(p, fuzzy_hits) ==
    Dedup(SortHits(p, fuzzy_hits), {agg.rows[k].mark : k \in DOMAIN agg.rows})

\* seen = set(); deduped_matches = []; for match in fuzzy_hits: ...
deduped_matches(p, fuzzy_hits) == Dedup(SortHits(p, fuzzy_hits), {})

\* faulty variant of top_matches: the top is taken from the hits only
top_matches_FromHits(p, fuzzy_all) ==
    LET l == SortTop(p, SelectSeq(fuzzy_all, IsHit))
    IN SubSeq(l, 1, Min(TopK(p), Len(l)))

\* sorted(fuzzy_all, key=lambda x: -x[1])[:K]
top_matches(p, fuzzy_all) ==
    LET l == SortTop(p, fuzzy_all) IN SubSeq(l, 1, Min(TopK(p), Len(l)))

\* faulty variant of LimitResults: the slice is lost
LimitResults_None(p, results) == results

\* results[:MAX_RESULTS_PER_SEARCH] in the class-aware script only
LimitResults(p, results) ==
    IF p = "byclass" /\ Len(results) > MAX_RESULTS_PER_SEARCH
    THEN SubSeq(results, 1, MAX_RESULTS_PER_SEARCH)
    ELSE results

MatchRow(p, t, s, m, label, k) ==
    IF p = "batch" THEN BatchRow(t, s, m.mark, m.score, label, m.serial, k)
    ELSE ByclassRow(t, s, m.mark, m.score, label, m.serial, m.registration,
                    IF Len(m.classes) > 0 THEN Join(m.classes) ELSE "None found",
                    YesNo(m.relevant), YesNo(m.mei),
                    m.excerpt, k)

RECURSIVE HitRows(_, _, _, _)
HitRows(p, t, s, l) ==
    IF Len(l) = 0 THEN <<>>
    ELSE <<MatchRow(p, t, s, Head(l), Head(l).status, "FuzzyHit")>>
         \o HitRows(p, t, s, Tail(l))

\* label = "Below Threshold" if match[1] < FUZZY_THRESHOLD else match[2]
MergeRow(p, t, s, m) ==
    IF m.score < FUZZY_THRESHOLD
    THEN MatchRow(p, t, s, m, "Below Threshold", "BelowThreshold")
    ELSE MatchRow(p, t, s, m, m.status, "TopK")

\* faulty variant of MergeKeeps: the hits are not skipped
MergeKeeps_All(m, existing_keywords) == TRUE

\* if match[0] not in existing_keywords
MergeKeeps(m, existing_keywords) == m.mark \notin existing_keywords

RECURSIVE MergeRows(_, _, _, _, _)
MergeRows(p, t, s, l, existing_keywords) ==
    IF Len(l) = 0 THEN <<>>
    ELSE (IF MergeKeeps(Head(l), existing_keywords)
          THEN <<MergeRow(p, t, s, Head(l))>> ELSE <<>>)
         \o MergeRows(p, t, s, Tail(l), existing_keywords)

\* faulty variant of ProcessResults: the continue after the empty-result
\* row is lost, so the no-hits branch runs as well
ProcessResults_NoContinue(p, t, s, items) ==
    LET results == LimitResults(p, items)
        fuzzy_all == ScoreAll(p, t, results)
        fuzzy_hits == SelectSeq(fuzzy_all, IsHit)
        existing_keywords == {fuzzy_hits[k].mark : k \in DOMAIN fuzzy_hits}
    IN (IF Len(results) = 0
        THEN <<SentinelRow(p, t, s, NoTrademarksText, "NoMatch")>> ELSE <<>>)
       \o (IF Len(fuzzy_hits) > 0
           THEN HitRows(p, t, s, deduped_matches(p, fuzzy_hits))
           ELSE <<SentinelRow(p, t, s, NoMatchesText, "NoMatch")>>)
       \o MergeRows(p, t, s, top_matches(p, fuzzy_all), existing_keywords)

\* faulty variant of ProcessResults: the no-hits row is written after the
\* top-K merge
ProcessResults_SentinelLast(p, t, s, items) ==
    LET results == LimitResults(p, items)
        fuzzy_all == ScoreAll(p, t, results)
        fuzzy_hits == SelectSeq(fuzzy_all, IsHit)
        existing_keywords == {fuzzy_hits[k].mark : k \in DOMAIN fuzzy_hits}
    IN IF Len(results) = 0
       THEN <<SentinelRow(p, t, s, NoTrademarksText, "NoMatch")>>
       ELSE (IF Len(fuzzy_hits) > 0
             THEN HitRows(p, t, s, deduped_matches(p, fuzzy_hits)) ELSE <<>>)
            \o MergeRows(p, t, s, top_matches(p, fuzzy_all), existing_keywords)
            \o (IF Len(fuzzy_hits) > 0 THEN <<>>
                ELSE <<SentinelRow(p, t, s, NoMatchesText, "NoMatch")>>)

\* rows the fuzzy loop body appends for one pair whose call answered 200
ProcessResults(p, t, s, items) ==
    LET results == LimitResults(p, items)
        fuzzy_all == ScoreAll(p, t, results)
        fuzzy_hits == SelectSeq(fuzzy_all, IsHit)
        existing_keywords == {fuzzy_hits[k].mark : k \in DOMAIN fuzzy_hits}
    IN IF Len(results) = 0
       THEN <<SentinelRow(p, t, s, NoTrademarksText, "NoMatch")>>
       ELSE (IF Len(fuzzy_hits) > 0
             THEN HitRows(p, t, s, deduped_matches(p, fuzzy_hits))
             ELSE <<SentinelRow(p, t, s, NoMatchesText, "NoMatch")>>)
            \o MergeRows(p, t, s, top_matches(p, fuzzy_all), existing_keywords)

\* rows the fuzzy loop body appends for one pair
FuzzyRows(p, t, s, resp) ==
    IF resp.fault = "none" /\ resp.status = 200
    THEN ProcessResults(p, t, s, resp.items)
    ELSE <<>>

(***************************************************************************)
(* The engine run.                                                         *)
(***************************************************************************)
Pairs == Targets \X Stems

NoResponse == Response("none", 0, <<>>)

NoAgg == [target |-> "", stem |-> "", results |-> <<>>, rows |-> <<>>,
          done |-> FALSE]

\* no report uploaded to a dashboard, no description tagged
NoSummary == [dash |-> "", table |-> [name \in {} |-> ""]]

NoTags == [description |-> "", classes |-> <<>>, relevant |-> FALSE,
           mei |-> FALSE, excerpt |-> "", done |-> FALSE]

\* neither tool started
NoTool == [which |-> "", names |-> <<>>, at |-> "", tested |-> <<>>,
           searched |-> <<>>, answers |-> <<>>, returned |-> <<>>,
           saved |-> <<>>, results |-> <<>>, exit_status |-> -1]

\* one requests.get: the loop that issued it, the name put in the URL and
\* how the provider answered
Call(ph, q, resp) ==
    [phase |-> ph, query |-> q, fault |-> resp.fault, status |-> resp.status]

Init ==
    /\ prog \in Progs
    /\ search_pairs \in UNION {[1..n -> Pairs] : n \in 1..MaxPairs}
    /\ fuzz = RunTable
    /\ pc = "start"
    /\ idx = 1
    /\ checked_names = {}
    /\ header = <<>>
    /\ report = <<>>
    /\ calls = <<>>
    /\ response = NoResponse
    /\ agg = NoAgg
    /\ summary = NoSummary
    /\ tags = NoTags
    /\ tool = NoTool

\* with open(output_filename, mode='w'): writer.writerow([...header...])
WriteHeader ==
    /\ pc = "start"
    /\ header' = IF prog = "batch" THEN BatchHeader ELSE ByclassHeader
    /\ pc' = "exact"
    /\ UNCHANGED <<prog, search_pairs, fuzz, idx, checked_names, report, calls,
                   response, agg, summary, tags, tool>>

\* faulty variant of Appended: the file is opened with mode 'w'
Appended_Truncating(rows, new) == new

\* with open(output_filename, mode='a'): writer.writerow(...)
Appended(rows, new) == rows \o new

\* faulty variant of NextPc: the loop is left after its first iteration
NextPc_Early(after) == after

\* position after one iteration of the loop that pc names
NextPc(after) == IF idx = Len(search_pairs) THEN after ELSE pc
NextIdx == IF idx = Len(search_pairs) THEN 1 ELSE idx + 1

\* faulty variant of AlreadyChecked: no target is ever skipped
AlreadyChecked_Never(target_name) == FALSE

\* if target_name in checked_names
AlreadyChecked(target_name) == target_name \in checked_names

\* if target_name in checked_names: continue
ExactSkip ==
    /\ pc = "exact"
    /\ AlreadyChecked(search_pairs[idx][1])
    /\ pc' = NextPc("fuzzy")
    /\ idx' = NextIdx
    /\ UNCHANGED <<prog, search_pairs, fuzz, checked_names, header, report, calls,
                   response, agg, summary, tags, tool>>

ExactCheck(resp) ==
    LET target_name == search_pairs[idx][1] IN
    /\ pc = "exact"
    /\ ~AlreadyChecked(target_name)
    /\ checked_names' = checked_names \cup {target_name}
    /\ calls' = Append(calls, Call("exact", target_name, resp))
    /\ response' = resp
    /\ IF Raises(prog, resp)
       THEN /\ pc' = "crashed"
            /\ UNCHANGED <<idx, report>>
       ELSE /\ report' = Appended(report, ExactRows(prog, target_name, resp))
            /\ pc' = NextPc("fuzzy")
            /\ idx' = NextIdx
    /\ UNCHANGED <<prog, search_pairs, fuzz, header, agg, summary, tags, tool>>

\* faulty variant of FuzzyQuery: the target name is put in the URL
FuzzyQuery_Target(pair) == pair[1]

\* url = f"https://{api_host}/v1/trademarkSearch/{stem}/active"
FuzzyQuery(pair) == pair[2]

FuzzySearch(resp) ==
    LET target_name == search_pairs[idx][1]
        stem == search_pairs[idx][2] IN
    /\ pc = "fuzzy"
    /\ calls' = Append(calls, Call("fuzzy", FuzzyQuery(search_pairs[idx]), resp))
    /\ response' = resp
    /\ IF Raises(prog, resp)
       THEN /\ pc' = "crashed"
            /\ UNCHANGED <<idx, report>>
       ELSE /\ report' = Appended(report,
                                  FuzzyRows(prog, target_name, stem, resp))
            /\ pc' = NextPc("done")
            /\ idx' = NextIdx
    /\ UNCHANGED <<prog, search_pairs, fuzz, checked_names, header, agg, summary,
                   tags, tool>>

Next ==
    \/ WriteHeader
    \/ ExactSkip
    \/ \E resp \in Responses(MaxItems) : ExactCheck(resp)
    \/ \E resp \in Responses(MaxItems) : FuzzySearch(resp)

Spec == Init /\ [][Next]_vars

(***************************************************************************)
(* The dashboards: the summary recomputed from the uploaded report.        *)
(***************************************************************************)
Dashboards == {"original", "fixed"}

Blocked == "Blocked"
Risk == "Risk"
Clear == "Clear"

\* df.columns stripped (original) or stripped and lower-cased (fixed)
Columns(d, hdr) ==
    IF d = "original" THEN {Strip(hdr[k]) : k \in DOMAIN hdr}
    ELSE {Lower(Strip(hdr[k])) : k \in DOMAIN hdr}

\* the columns the summary indexes; a missing one raises KeyError
Readable(d, hdr) ==
    IF d = "original"
    THEN {"Target Name", "Search Stem", "Score"} \subseteq Columns(d, hdr)
    ELSE {"target name", "search stem", "matched mark", "score"}
             \subseteq Columns(d, hdr)

\* df["search stem"].str.strip().str.lower(), fixed dashboard only
NormStem == [s \in Stems \cup {"EXACT"} |-> Lower(Strip(s))]

SearchStem(d, row) == IF d = "original" THEN row.stem ELSE NormStem[row.stem]

ExactLabel(d) == IF d = "original" THEN "EXACT" ELSE "exact"

\* a row counted by exact_match / has_exact
exact_match(d, row) ==
    IF d = "original" THEN SearchStem(d, row) = ExactLabel(d)
    ELSE SearchStem(d, row) = ExactLabel(d) /\ row.mark # NoMatchesText

\* a row counted by fuzzy_match / has_fuzzy
fuzzy_match(d, row) ==
    SearchStem(d, row) # ExactLabel(d) /\ row.score >= DashThreshold

\* faulty variant of has_exact: only the first row of the target is read
has_exact_FirstRow(d, rows, name) ==
    LET own == SelectSeq(rows, LAMBDA r : r.target = name)
    IN Len(own) > 0 /\ exact_match(d, own[1])

has_exact(d, rows, name) ==
    \E k \in DOMAIN rows : rows[k].target = name /\ exact_match(d, rows[k])

has_fuzzy(d, rows, name) ==
    \E k \in DOMAIN rows : rows[k].target = name /\ fuzzy_match(d, rows[k])

verdict(d, rows, name) ==
    IF has_exact(d, rows, name) THEN Blocked
    ELSE IF has_fuzzy(d, rows, name) THEN Risk
    ELSE Clear

target_names(rows) == {rows[k].target : k \in DOMAIN rows}

\* "Exact Match Score" (fixed: score_row["score"].iloc[0], else 0.0) and
\* "Top Score" (original: groupby("Target Name")["Score"].max())
top_score(d, rows, name) ==
    LET own == SelectSeq(rows, LAMBDA r : r.target = name)
        exact == SelectSeq(own, LAMBDA r : SearchStem(d, r) = ExactLabel(d))
    IN IF d = "original"
       THEN CHOOSE m \in {own[k].score : k \in DOMAIN own} :
                \A k \in DOMAIN own : own[k].score <= m
       ELSE IF Len(exact) > 0 THEN exact[1].score ELSE 0

\* one line of the summary table
summary_row(d, rows, name) ==
    [exact |-> has_exact(d, rows, name),
     fuzzy |-> has_fuzzy(d, rows, name),
     top |-> top_score(d, rows, name),
     verdict |-> verdict(d, rows, name)]

(***************************************************************************)
(* A dashboard run over an uploaded report.  The upload is any sequence of *)
(* rows an engine script can write, under the header of that script.       *)
(***************************************************************************)
\* rows the engine can append for one provider answer: no item or one
\* registered mark, or a server error
ReportRows(p) ==
    LET answers == {resp \in Responses(1) :
                       /\ ~Raises(p, resp)
                       /\ resp.status # 401
                       /\ \A k \in DOMAIN resp.items :
                              resp.items[k].registration_number # ""}
    IN UNION {Range(ExactRows(p, t, resp)) \cup Range(FuzzyRows(p, t, "MEI", resp)) :
                 t \in Targets, resp \in answers}

\* computed once per script
UploadRows == [p \in Progs |-> ReportRows(p)]

\* the class-aware script's uploads only reach the KeyError
UploadLimit(p) == IF p = "batch" THEN MaxRows ELSE 1

DashInit ==
    /\ prog \in Progs
    /\ search_pairs = <<>>
    /\ fuzz = RunTable
    /\ pc = "upload"
    /\ idx = 1
    /\ checked_names = {}
    /\ header = (IF prog = "batch" THEN BatchHeader ELSE ByclassHeader)
    /\ report \in SeqsUpTo(UploadRows[prog], UploadLimit(prog))
    /\ calls = <<>>
    /\ response = NoResponse
    /\ agg = NoAgg
    /\ summary = NoSummary
    /\ tags = NoTags
    /\ tool = NoTool

\* if uploaded_file: ... st.dataframe(summary_table)
Summarize(d) ==
    /\ pc = "upload"
    /\ IF Readable(d, header)
       THEN /\ summary' = [dash |-> d,
                           table |-> [name \in target_names(report) |->
                                         summary_row(d, report, name)]]
            /\ pc' = "shown"
       ELSE /\ summary' = [NoSummary EXCEPT !.dash = d]
            /\ pc' = "crashed"
    /\ UNCHANGED <<prog, search_pairs, fuzz, idx, checked_names, header, report,
                   calls, response, agg, tags, tool>>

DashNext == \E d \in Dashboards : Summarize(d)

SpecDash == DashInit /\ [][DashNext]_vars

(***************************************************************************)
(* The aggregation of one pair as a function of its inputs.                *)
(***************************************************************************)
AggInit ==
    /\ prog \in Progs
    /\ search_pairs = <<>>
    /\ pc = "agg"
    /\ idx = 1
    /\ checked_names = {}
    /\ header = <<>>
    /\ report = <<>>
    /\ calls = <<>>
    /\ response = NoResponse
    /\ summary = NoSummary
    /\ tags = NoTags
    /\ tool = NoTool
    /\ \E t \in Targets, s \in Stems, its \in SeqsUpTo(CandidateSet, MaxAggItems) :
          /\ fuzz \in [FuzzKeys({t}) -> ScoreTriples]
          /\ agg = [target |-> t, stem |-> s, results |-> its, rows |-> <<>>,
                    done |-> FALSE]

Aggregate ==
    /\ pc = "agg"
    /\ ~agg.done
    /\ agg' = [agg EXCEPT !.rows = ProcessResults(prog, agg.target, agg.stem,
                                                  agg.results),
                          !.done = TRUE]
    /\ UNCHANGED <<prog, search_pairs, fuzz, pc, idx, checked_names, header,
                   report, calls, response, summary, tags, tool>>

\* the loop body run once more on the same target, stem and results, as
\* for a pair that occurs again later in search_pairs; its rows are
\* appended to the report
Reaggregate ==
    /\ pc = "agg"
    /\ agg.done
    /\ report' = report \o ProcessResults(prog, agg.target, agg.stem,
                                          agg.results)
    /\ pc' = "again"
    /\ UNCHANGED <<prog, search_pairs, fuzz, idx, checked_names, header, calls,
                   response, agg, summary, tags, tool>>

AggNext == Aggregate \/ Reaggregate

SpecAgg == AggInit /\ [][AggNext]_vars

(***************************************************************************)
(* The aggregation of a pair whose response is about as long as the result *)
(* limit: one marked candidate among copies of another one.                *)
(***************************************************************************)
MarkedCandidate == CHOOSE c \in CandidateSet : c.serial_number = "S1"
FillerCandidate == CHOOSE c \in CandidateSet : c.serial_number = "S3"

\* a response of n items with the marked candidate at position at
LongList(n, at) ==
    [k \in 1..n |-> IF k = at THEN MarkedCandidate ELSE FillerCandidate]

LongLists ==
    {LongList(n, at) :
        n \in (MAX_RESULTS_PER_SEARCH - 1)..(MAX_RESULTS_PER_SEARCH + MaxExtra),
        at \in {1} \cup ((MAX_RESULTS_PER_SEARCH - 1)
                           ..(MAX_RESULTS_PER_SEARCH + MaxExtra))}

LimitInit ==
    /\ prog \in Progs
    /\ search_pairs = <<>>
    /\ pc = "agg"
    /\ idx = 1
    /\ checked_names = {}
    /\ header = <<>>
    /\ report = <<>>
    /\ calls = <<>>
    /\ response = NoResponse
    /\ summary = NoSummary
    /\ tags = NoTags
    /\ tool = NoTool
    /\ \E t \in Targets, its \in LongLists :
          /\ fuzz \in [FuzzKeys({t}) -> ScoreTriples]
          /\ agg = [target |-> t, stem |-> "MEI", results |-> its,
                    rows |-> <<>>, done |-> FALSE]

SpecLimit == LimitInit /\ [][AggNext]_vars

(***************************************************************************)
(* The tagging of one description by the class-aware script, as a function *)
(* of the description.                                                     *)
(***************************************************************************)
Fragments == {"Class 42", "International Class 35", "CLASS 41", "position 1",
              "Position 1:", "software", "marketing training", "class 9"}

RECURSIVE Phrase(_)
Phrase(words) ==
    IF Len(words) = 0 THEN ""
    ELSE IF Len(words) = 1 THEN Head(words)
    ELSE Head(words) \o " " \o Phrase(Tail(words))

\* descriptions of up to MaxWords fragments, the empty one included
Descriptions == {Phrase(w) : w \in SeqsUpTo(Fragments, MaxWords)}

\* descriptions around the excerpt limit
RECURSIVE Filler(_)
Filler(n) ==
    IF n <= 0 THEN ""
    ELSE IF n = 1 THEN "x"
    ELSE Filler(n \div 2) \o Filler(n - n \div 2)

\* text followed by filler up to n characters
Pad(text, n) == text \o Filler(n - Len(text))

LongDescriptions ==
    {Pad("Class 42 software", n) :
        n \in {DescLimit - 1, DescLimit, DescLimit + 1, DescLimit + 30}}

\* the descriptions of the records that follow the first one
LaterDescriptions ==
    {Phrase(w) : w \in SeqsUpTo(Fragments, 1)} \cup LongDescriptions

TagInit ==
    /\ prog = "byclass"
    /\ search_pairs = <<>>
    /\ fuzz = RunTable
    /\ pc = "tag"
    /\ idx = 1
    /\ checked_names = {}
    /\ header = <<>>
    /\ report = <<>>
    /\ calls = <<>>
    /\ response = NoResponse
    /\ agg = NoAgg
    /\ summary = NoSummary
    /\ tool = NoTool
    /\ \E d \in Descriptions \cup LongDescriptions :
          tags = [NoTags EXCEPT !.description = d]

\* classes_found, relevant_class_match, mei_related and the excerpt of one
\* result's description
Tagged(description) ==
    LET classes_found == extract_classes_from_description(description)
    IN [description |-> description,
        classes |-> classes_found,
        relevant |-> relevant_class_match(classes_found),
        mei |-> is_related_to_mei(description),
        excerpt |-> description_excerpt(description),
        done |-> TRUE]

\* the tags of the later records, computed once
TaggedOf == [d \in LaterDescriptions |-> Tagged(d)]

\* the first result of a response
TagDescription ==
    /\ pc = "tag"
    /\ ~tags.done
    /\ tags' = Tagged(tags.description)
    /\ UNCHANGED <<prog, search_pairs, fuzz, pc, idx, checked_names, header,
                   report, calls, response, agg, summary, tool>>

\* for result in exact_results / for entry in results: the next record
TagAnother(d) ==
    /\ pc = "tag"
    /\ tags.done
    /\ tags' = TaggedOf[d]
    /\ UNCHANGED <<prog, search_pairs, fuzz, pc, idx, checked_names, header,
                   report, calls, response, agg, summary, tool>>

TagNext == TagDescription \/ \E d \in LaterDescriptions : TagAnother(d)

SpecTag == TagInit /\ [][TagNext]_vars

(***************************************************************************)
(* The two command-line tools (uspto_search.py and                         *)
(* markerapi_trademark_search.py): a connection test, then one search,     *)
(* one analysis and one saved directory per trademark name.                *)
(***************************************************************************)
\* trademark_names: the built-in list or the names typed in; never empty
NameLists ==
    UNION {[1..n -> {"SPRINGIFY", "LEAPWISE"}] : n \in 1..MaxNames}

\* a parsed JSON value as the analysis looks at it: its type, the keys it
\* has and the value of "count" and of "trademarks"
Json(kind, error, has_count, count, has_trademarks, is_list, trademarks) ==
    [kind |-> kind, error |-> error, label |-> "",
     has_count |-> has_count, count |-> count,
     has_trademarks |-> has_trademarks, is_list |-> is_list,
     trademarks |-> trademarks]

\* one element of "trademarks": a dict with its serial number and status
\* code, or a value that is no dict
Tm(dict, serial, code) == [dict |-> dict, serial |-> serial, code |-> code]

Bodies ==
    {Json("null", FALSE, FALSE, 0, FALSE, FALSE, <<>>),
     Json("list", FALSE, FALSE, 0, FALSE, FALSE, <<>>),
     Json("dict", FALSE, FALSE, 0, FALSE, FALSE, <<>>),
     Json("dict", TRUE, FALSE, 0, FALSE, FALSE, <<>>),
     Json("dict", FALSE, FALSE, 0, TRUE, TRUE, <<Tm(TRUE, "S1", "LIVE")>>),
     Json("dict", FALSE, TRUE, 1, FALSE, FALSE, <<>>),
     Json("dict", FALSE, TRUE, 0, TRUE, TRUE, <<>>),
     Json("dict", FALSE, TRUE, 0, TRUE, TRUE, <<Tm(TRUE, "S1", "LIVE")>>),
     Json("dict", FALSE, TRUE, 1, TRUE, TRUE, <<Tm(TRUE, "S1", "LIVE")>>),
     Json("dict", FALSE, TRUE, 2, TRUE, TRUE,
          <<Tm(TRUE, "S1", "PENDING"), Tm(TRUE, "S2", "DEAD")>>),
     Json("dict", FALSE, TRUE, 1, TRUE, FALSE, <<>>),
     Json("dict", FALSE, TRUE, 2, TRUE, TRUE, <<Tm(TRUE, "S1", "LIVE"), Tm(FALSE, "", "")>>)}

\* how the provider answers one request: a transport failure, or a status
\* code with a body that parses or not
Answers ==
    LET none == Json("null", FALSE, FALSE, 0, FALSE, FALSE, <<>>)
    IN {[fault |-> TRUE, status |-> 0, parses |-> FALSE, body |-> none]}
       \cup {[fault |-> FALSE, status |-> st, parses |-> FALSE,
               body |-> none] : st \in {200, 401, 500}}
       \cup {[fault |-> FALSE, status |-> 200, parses |-> TRUE, body |-> b] :
                b \in Bodies}

\* {"error": label, "message": ...}
ErrorValue(label) ==
    [Json("dict", TRUE, FALSE, 0, FALSE, FALSE, <<>>) EXCEPT !.label = label]

\* test_api_connection / test_connection: True for status 200 only
test_api_connection(answer) ==
    ~answer.fault /\ answer.status = 200

\* search_trademark of the USPTO tool
uspto_search_trademark(answer) ==
    IF answer.fault THEN ErrorValue("Request Error")
    ELSE IF answer.status = 401 THEN ErrorValue("Authentication Error")
    ELSE IF answer.status >= 400 THEN ErrorValue("HTTP Error")
    ELSE IF ~answer.parses THEN ErrorValue("JSON Decode Error")
    ELSE answer.body

\* MarkerAPITrademarkSearch.search_trademark
marker_search_trademark(answer) ==
    IF answer.fault THEN ErrorValue("Request Error")
    ELSE IF answer.status # 200 THEN ErrorValue("HTTP")
    ELSE IF ~answer.parses THEN ErrorValue("JSON Decode Error")
    ELSE answer.body

search_trademark(which, answer) ==
    IF which = "uspto" THEN uspto_search_trademark(answer)
    ELSE marker_search_trademark(answer)

\* Python's truth value of a parsed JSON value
Truthy(r) ==
    \/ r.kind = "list"
    \/ r.kind = "dict" /\ (r.error \/ r.has_count \/ r.has_trademarks)

\* an analysis; raised stands for an exception leaving analyze_results
Analysis(name, conflicts, message) ==
    [raised |-> FALSE, name |-> name, potential_conflicts |-> conflicts,
     conflict_count |-> Len(conflicts), message |-> message]

Raised(name) ==
    [raised |-> TRUE, name |-> name, potential_conflicts |-> <<>>,
     conflict_count |-> 0, message |-> "exception"]

\* for tm in trademarks: iterating None, or tm.get on a value that is no
\* dict, raises
Iterable(r) ==
    r.is_list /\ \A k \in DOMAIN r.trademarks : r.trademarks[k].dict

\* if status_code in ["LIVE", "PENDING"]: potential_conflicts.append(...)
uspto_conflicts(trademarks) ==
    SelectSeq(trademarks, LAMBDA tm : tm.code \in {"LIVE", "PENDING"})

\* analyze_results of the USPTO tool
uspto_analyze_results(name, r) ==
    IF r.kind = "dict" /\ r.error THEN Analysis(name, <<>>, "error")
    ELSE IF ~Truthy(r) \/ r.kind # "dict" \/ ~r.has_trademarks
    THEN Analysis(name, <<>>, "unexpected format")
    ELSE IF ~Iterable(r) THEN Raised(name)
    ELSE Analysis(name, uspto_conflicts(r.trademarks), "found")

\* MarkerAPITrademarkSearch.analyze_results
marker_analyze_results(name, r) ==
    IF r.kind = "dict" /\ r.error THEN Analysis(name, <<>>, "error")
    ELSE IF ~Truthy(r) \/ r.kind # "dict" \/ ~r.has_count
    THEN Analysis(name, <<>>, "unexpected format")
    ELSE IF r.count = 0 \/ ~r.has_trademarks
    THEN Analysis(name, <<>>, "no matching")
    ELSE IF ~Iterable(r) THEN Raised(name)
    ELSE Analysis(name, r.trademarks, "found")

analyze_results(which, name, r) ==
    IF which = "uspto" THEN uspto_analyze_results(name, r)
    ELSE marker_analyze_results(name, r)

\* main before the connection test
ToolInit ==
    /\ prog = "batch"
    /\ search_pairs = <<>>
    /\ fuzz = RunTable
    /\ pc = "tool"
    /\ idx = 1
    /\ checked_names = {}
    /\ header = <<>>
    /\ report = <<>>
    /\ calls = <<>>
    /\ response = NoResponse
    /\ agg = NoAgg
    /\ summary = NoSummary
    /\ tags = NoTags
    /\ \E which \in {"uspto", "marker"}, names \in NameLists :
          tool = [NoTool EXCEPT !.which = which, !.names = names,
                                !.at = "test"]

ToolUnchanged ==
    UNCHANGED <<prog, search_pairs, fuzz, pc, idx, checked_names, header,
                report, calls, response, agg, summary, tags>>

\* if not api_key / if not username or not password: sys.exit(1)
NoCredentials ==
    /\ tool.at = "test"
    /\ tool' = [tool EXCEPT !.at = "exit", !.exit_status = 1]
    /\ ToolUnchanged

\* if not test_api_connection(api_key): sys.exit(1)
TestConnection(answer) ==
    /\ tool.at = "test"
    /\ tool' = IF test_api_connection(answer)
               THEN [tool EXCEPT !.at = "search", !.tested = <<answer>>]
               ELSE [tool EXCEPT !.at = "exit", !.tested = <<answer>>,
                                 !.exit_status = 1]
    /\ ToolUnchanged

\* MarkerAPI tool: if confirm != 'y': return
Cancel ==
    /\ tool.at = "search"
    /\ tool.which = "marker"
    /\ tool.searched = <<>>
    /\ tool' = [tool EXCEPT !.at = "done", !.exit_status = 0]
    /\ ToolUnchanged

\* one turn of "for name in trademark_names": search, analyze, save, append
SearchName(answer) ==
    /\ tool.at = "search"
    /\ Len(tool.searched) < Len(tool.names)
    /\ LET name == tool.names[Len(tool.searched) + 1]
           search_results == search_trademark(tool.which, answer)
           analysis == analyze_results(tool.which, name, search_results)
       IN tool' = IF analysis.raised
                  THEN [tool EXCEPT !.at = "exit", !.exit_status = 1,
                            !.searched = Append(@, name),
                            !.answers = Append(@, answer),
                            !.returned = Append(@, search_results)]
                  ELSE [tool EXCEPT
                            !.searched = Append(@, name),
                            !.answers = Append(@, answer),
                            !.returned = Append(@, search_results),
                            !.saved = Append(@, name),
                            !.results = Append(@, analysis)]
    /\ ToolUnchanged

\* the end of the loop: the summary report and the normal return
Finish ==
    /\ tool.at = "search"
    /\ Len(tool.searched) = Len(tool.names)
    /\ tool' = [tool EXCEPT !.at = "done", !.exit_status = 0]
    /\ ToolUnchanged

ToolNext ==
    \/ NoCredentials
    \/ \E answer \in Answers : TestConnection(answer)
    \/ Cancel
    \/ \E answer \in Answers : SearchName(answer)
    \/ Finish

SpecTool == ToolInit /\ [][ToolNext]_vars

(***************************************************************************)
(* Vocabulary of the properties.                                           *)
(***************************************************************************)
\* the verdict rule over the ConflictEntries of a target
RuleVerdict(rows, name) ==
    IF \E k \in DOMAIN rows :
          rows[k].target = name /\ rows[k].kind = "Exact" /\ rows[k].mark # ""
    THEN Blocked
    ELSE IF \E k \in DOMAIN rows :
               rows[k].target = name /\ rows[k].kind = "FuzzyHit"
    THEN Risk
    ELSE Clear

Sentinels == {"NoMatch", "ProviderError"}

\* the latest provider call was an exact check
AfterExact == Len(calls) > 0 /\ calls[Len(calls)].phase = "exact"

LastQuery == calls[Len(calls)].query

\* the provider's unauthorized signal
Unauthorized(resp) == resp.fault = "none" /\ resp.status = 401

\* a failure other than an authentication failure
OtherFailure(resp) ==
    resp.fault # "none" \/ (resp.status # 200 /\ resp.status # 401)

(***************************************************************************)
(* C1: for every target, the dashboard's verdict is Blocked iff one of its *)
(* entries is an Exact match with a non-empty mark text, otherwise Risk    *)
(* iff one is a FuzzyHit, otherwise Clear; BelowThreshold, NoMatch and     *)
(* ProviderError entries contribute to neither.                            *)
(***************************************************************************)
C1_VerdictFollowsRule ==
    \A d \in Dashboards :
        Readable(d, header) =>
            \A name \in target_names(report) :
                verdict(d, report, name) = RuleVerdict(report, name)

(***************************************************************************)
(* C2: for every report of a finished run the verdict the dashboard        *)
(* recomputes equals the verdict of the rule on the entries the rows stand *)
(* for; in particular a target whose EXACT rows are only ProviderError or  *)
(* NoMatch sentinels is not reported Blocked.                              *)
(***************************************************************************)
C2_RecomputationMatches ==
    \A d \in Dashboards :
        Readable(d, header) =>
            \A name \in target_names(report) :
                /\ pc = "done" =>
                      verdict(d, report, name) = RuleVerdict(report, name)
                /\ (\A k \in DOMAIN report :
                       (report[k].target = name /\ report[k].stem = "EXACT")
                           => report[k].kind \in Sentinels)
                      => verdict(d, report, name) # Blocked

(***************************************************************************)
(* C3: when an exact check is answered 401 the run aborts: no sentinel row *)
(* is written for the failure, no further provider call is issued and no   *)
(* entry is written for a later target or pair.                            *)
(***************************************************************************)
C3_UnauthorizedAborts ==
    \A c \in DOMAIN calls :
        (calls[c].phase = "exact" /\ Unauthorized(calls[c])) =>
            /\ c = Len(calls)
            /\ pc = "crashed"
            /\ \A k \in DOMAIN report : report[k].target # calls[c].query

(***************************************************************************)
(* C4: when a run finishes without an authentication failure, the report   *)
(* holds at least one row for every attempted (target, stem) pair,         *)
(* whatever the provider answered for the pair.                            *)
(***************************************************************************)
C4_RowForEveryPair ==
    (pc = "done" /\ \A c \in DOMAIN calls : ~Unauthorized(calls[c])) =>
        \A j \in DOMAIN search_pairs :
            \E k \in DOMAIN report :
                /\ report[k].target = search_pairs[j][1]
                /\ report[k].stem = search_pairs[j][2]

(***************************************************************************)
(* C5: when the exact check of a target fails other than by authentication *)
(* exactly one ProviderError sentinel row with score 0 is written for the  *)
(* target and the run continues: it does not end there, and when it is     *)
(* finished every target had its exact check and every pair its search.    *)
(***************************************************************************)
C5_ExactFailureRecovered ==
    \A c \in DOMAIN calls :
        (calls[c].phase = "exact" /\ OtherFailure(calls[c])) =>
            /\ pc # "crashed"
            /\ Cardinality({k \in DOMAIN report :
                               /\ report[k].target = calls[c].query
                               /\ report[k].stem = "EXACT"
                               /\ report[k].kind = "ProviderError"
                               /\ report[k].score = 0}) = 1
            /\ pc = "done" =>
                  /\ \A j \in DOMAIN search_pairs :
                        \E e \in DOMAIN calls :
                            /\ calls[e].phase = "exact"
                            /\ calls[e].query = search_pairs[j][1]
                  /\ Cardinality({f \in DOMAIN calls : calls[f].phase = "fuzzy"})
                        = Len(search_pairs)

(***************************************************************************)
(* C6: a target whose exact query returns one or more candidates gets      *)
(* exactly one Exact entry: the first candidate, score 100, stem "EXACT";  *)
(* the other candidates produce no row.                                    *)
(***************************************************************************)
C6_OneExactEntry ==
    (AfterExact /\ response.fault = "none" /\ response.status = 200
        /\ Len(response.items) > 0) =>
        LET mine == SelectSeq(report, LAMBDA r : r.target = LastQuery) IN
        /\ Len(mine) = 1
        /\ mine[1].kind = "Exact"
        /\ mine[1].mark = response.items[1].keyword
        /\ mine[1].serial = response.items[1].serial_number
        /\ mine[1].score = 100
        /\ mine[1].stem = "EXACT"

(***************************************************************************)
(* C7: when the exact query of a target returns no candidate, exactly one  *)
(* NoMatch sentinel row with score 0 is written for the target, and that   *)
(* row alone does not make the target's verdict Blocked.                   *)
(***************************************************************************)
C7_NoMatchNeverBlocks ==
    (AfterExact /\ response.fault = "none" /\ response.status = 200
        /\ Len(response.items) = 0) =>
        LET mine == SelectSeq(report, LAMBDA r : r.target = LastQuery) IN
        /\ Len(mine) = 1
        /\ mine[1].kind = "NoMatch"
        /\ mine[1].score = 0
        /\ \A d \in Dashboards :
              Readable(d, header) => verdict(d, mine, LastQuery) # Blocked

(***************************************************************************)
(* Vocabulary of the per-pair properties.                                  *)
(***************************************************************************)
\* the scored candidates of the aggregated pair
AggAll == ScoreAll(prog, agg.target, LimitResults(prog, agg.results))

AggHits == {AggAll[k] : k \in {j \in DOMAIN AggAll : AggAll[j].score >= 75}}

AggRowsWith(m) == SelectSeq(agg.rows, LAMBDA r : r.mark = m)

\* a ranks strictly before b: higher score, then class match, then domain
Outranks(a, b) ==
    \/ a.score > b.score
    \/ a.score = b.score /\ a.relevant /\ ~b.relevant
    \/ a.score = b.score /\ a.relevant = b.relevant /\ a.mei /\ ~b.mei

C9_UniqueMarkPerPair ==
    agg.done =>
        \A j, k \in DOMAIN agg.rows :
            agg.rows[j].mark = agg.rows[k].mark => j = k

(***************************************************************************)
(* C10: a candidate is a fuzzy hit iff its final score is at least the     *)
(* threshold: one scoring exactly 75 is a hit, one scoring 74 is not; and  *)
(* the dashboards' fuzzy test accepts exactly the FuzzyHit rows.           *)
(***************************************************************************)
C10_ThresholdInclusive ==
    agg.done =>
        /\ \A k \in DOMAIN AggAll :
              (AggAll[k].score >= 75) <=>
                  \E j \in DOMAIN agg.rows :
                      /\ agg.rows[j].kind = "FuzzyHit"
                      /\ agg.rows[j].mark = AggAll[k].mark
                      /\ agg.rows[j].score = AggAll[k].score
        /\ \A d \in Dashboards : \A j \in DOMAIN agg.rows :
              SearchStem(d, agg.rows[j]) # ExactLabel(d) =>
                  (fuzzy_match(d, agg.rows[j]) <=> agg.rows[j].kind = "FuzzyHit")

\* one candidate at exactly 75 written as a hit, one at 74 written below
C10_Witness ==
    /\ agg.done
    /\ agg.stem # "EXACT"
    /\ \E j \in DOMAIN agg.rows :
          /\ agg.rows[j].kind = "FuzzyHit" /\ agg.rows[j].score = 75
          /\ \A d \in Dashboards : fuzzy_match(d, agg.rows[j])
    /\ \E j \in DOMAIN agg.rows :
          /\ agg.rows[j].kind = "BelowThreshold" /\ agg.rows[j].score = 74
          /\ \A d \in Dashboards : ~fuzzy_match(d, agg.rows[j])

(***************************************************************************)
(* C11: the verdict of a target is the same for every permutation of the   *)
(* rows of the report: the order in which the stems were processed, and    *)
(* so the order of the rows, has no influence on it.                       *)
(***************************************************************************)
Perms(n) == {f \in [1..n -> 1..n] : \A i, j \in 1..n : f[i] = f[j] => i = j}

\* computed once per length
PermsOf == [n \in 0..MaxRows |-> Perms(n)]

Permuted(rows, f) == [k \in DOMAIN rows |-> rows[f[k]]]

C11_VerdictOrderFree ==
    pc = "shown" =>
        \A f \in PermsOf[Len(report)] : \A name \in DOMAIN summary.table :
            verdict(summary.dash, Permuted(report, f), name)
                = summary.table[name].verdict

\* a target whose rows are a fuzzy hit followed by an exact match
C11_Witness ==
    /\ pc = "shown"
    /\ \E j, k \in DOMAIN report :
          /\ j < k
          /\ report[j].target = report[k].target
          /\ report[j].kind = "FuzzyHit"
          /\ report[k].kind = "Exact"
          /\ summary.table[report[k].target].verdict = Blocked

(***************************************************************************)
(* C12: verdict monotonicity.  Adding an Exact entry for a target makes    *)
(* its verdict Blocked whatever fuzzy entries the report holds, and a      *)
(* target none of whose entries is an Exact or a FuzzyHit entry has the    *)
(* verdict Clear.                                                          *)
(***************************************************************************)
C12_VerdictMonotone ==
    pc = "shown" =>
        /\ \A e \in UploadRows[prog] :
               e.kind = "Exact" =>
                   verdict(summary.dash, Append(report, e), e.target) = Blocked
        /\ \A name \in DOMAIN summary.table :
               (\A k \in DOMAIN report :
                    report[k].target = name =>
                        report[k].kind \notin {"Exact", "FuzzyHit"})
                   => summary.table[name].verdict = Clear

Components(mark) == fuzz[<<LowerName[agg.target], LowerName[mark]>>]

IsMaxOf(sc, s) ==
    /\ \A i \in 1..3 : s[i] \in 0..100 /\ sc >= s[i]
    /\ \E i \in 1..3 : sc = s[i]
    /\ sc \in 0..100

C14_FinalScoreIsMax ==
    agg.done =>
        /\ \A k \in DOMAIN AggAll :
               IsMaxOf(AggAll[k].score, Components(AggAll[k].mark))
        /\ \A k \in DOMAIN agg.rows :
               agg.rows[k].kind \notin Sentinels =>
                   IsMaxOf(agg.rows[k].score, Components(agg.rows[k].mark))

\* a row whose score is the second component, the first being smaller
C14_Witness ==
    /\ agg.done
    /\ \E k \in DOMAIN agg.rows :
          /\ agg.rows[k].kind = "BelowThreshold"
          /\ Components(agg.rows[k].mark) = <<60, 74, 70>>
          /\ agg.rows[k].score = 74

(***************************************************************************)
(* C15: the exact check is issued exactly once per distinct target name,   *)
(* in the order of the names' first occurrence in the pair list, also when *)
(* a target appears in several pairs.                                      *)
(***************************************************************************)
\* the names queried by the calls of one loop, in call order
Queries(ph) ==
    LET own == SelectSeq(calls, LAMBDA c : c.phase = ph)
    IN [k \in DOMAIN own |-> own[k].query]

\* the target names of the pair list, each at its first occurrence
RECURSIVE FirstOccurrences(_, _)
FirstOccurrences(pairs, seen) ==
    IF Len(pairs) = 0 THEN <<>>
    ELSE IF Head(pairs)[1] \in seen THEN FirstOccurrences(Tail(pairs), seen)
    ELSE <<Head(pairs)[1]>>
         \o FirstOccurrences(Tail(pairs), seen \cup {Head(pairs)[1]})

IsPrefix(a, b) == Len(a) <= Len(b) /\ a = SubSeq(b, 1, Len(a))

C15_ExactOncePerTarget ==
    LET expected == FirstOccurrences(search_pairs, {})
    IN /\ IsPrefix(Queries("exact"), expected)
       /\ (pc = "fuzzy" \/ pc = "done") => Queries("exact") = expected

\* a finished run over two pairs of one target: one exact check
C15_Witness ==
    /\ pc = "done"
    /\ Len(search_pairs) = 2
    /\ search_pairs[1][1] = search_pairs[2][1]
    /\ Queries("exact") = <<search_pairs[1][1]>>

(***************************************************************************)
(* C16: the fuzzy pass issues exactly one provider call per element of the *)
(* pair list, the i-th call querying the stem of the i-th pair; a pair     *)
(* that occurs n times in the list produces n calls, none is deduplicated. *)
(***************************************************************************)
StemsOf(pairs) == [k \in DOMAIN pairs |-> pairs[k][2]]

C16_FuzzyCallPerPair ==
    /\ IsPrefix(Queries("fuzzy"), StemsOf(search_pairs))
    /\ pc = "fuzzy" => Len(Queries("fuzzy")) = idx - 1
    /\ pc = "done" => Queries("fuzzy") = StemsOf(search_pairs)

\* a finished run over the same pair twice: two calls for its stem
C16_Witness ==
    /\ pc = "done"
    /\ Len(search_pairs) = 2
    /\ search_pairs[1] = search_pairs[2]
    /\ Queries("fuzzy") = <<search_pairs[1][2], search_pairs[1][2]>>

(***************************************************************************)
(* C17: relevantClassMatch of a description is true iff its inferred       *)
(* classes intersect the target classes of interest; a description with an *)
(* explicit "class 42" mention has "42" among its inferred classes and     *)
(* relevantClassMatch true, with or without a "position 1" marker.         *)
(***************************************************************************)
ClassesOfInterest == {"35", "41", "42"}

Mentions(description, text) == Contains(Lower(description), text)

C17_RelevantIffIntersects ==
    tags.done =>
        /\ tags.relevant <=> (Range(tags.classes) \cap ClassesOfInterest # {})
        /\ Mentions(tags.description, "class 42") =>
               "42" \in Range(tags.classes) /\ tags.relevant

\* an explicit class 42 mention without a position marker
C17_Witness ==
    /\ tags.done
    /\ Mentions(tags.description, "class 42")
    /\ ~Mentions(tags.description, "position 1")
    /\ "42" \in Range(tags.classes)
    /\ tags.relevant

(***************************************************************************)
(* C18: the FuzzyHit rows written for a pair are in non-increasing order   *)
(* of the key (final score, relevantClassMatch, domainRelevant) compared   *)
(* lexicographically: higher score first, among equal scores class match   *)
(* first, among those domain relevance first.  The batch script writes no  *)
(* tags: its rows are ordered by the score.                                *)
(***************************************************************************)
HitRowsWritten == SelectSeq(agg.rows, LAMBDA r : r.kind = "FuzzyHit")

\* the key as the row shows it
RowKey(r) ==
    IF prog = "batch" THEN <<r.score, 0, 0>>
    ELSE <<r.score, BoolInt(r.relevant = "Yes"), BoolInt(r.mei = "Yes")>>

Rank(all, k) ==
    Cardinality({j \in DOMAIN all :
                    \/ all[j].score > all[k].score
                    \/ all[j].score = all[k].score /\ j < k})

TopIndices(all) == {k \in DOMAIN all : Rank(all, k) < TopK(prog)}

MergeRowsWritten ==
    SelectSeq(agg.rows, LAMBDA r : r.kind \in {"BelowThreshold", "TopK"})

C19_TopKFromAll ==
    agg.done =>
        LET all == AggAll
            top == TopIndices(all)
            merged == MergeRowsWritten
        IN /\ \A k \in top :
                  \E j \in DOMAIN agg.rows :
                      /\ agg.rows[j].kind \notin Sentinels
                      /\ agg.rows[j].mark = all[k].mark
           /\ Len(merged) <= TopK(prog)
           /\ \A j \in DOMAIN merged :
                  \E k \in top :
                      /\ merged[j].mark = all[k].mark
                      /\ merged[j].score = all[k].score
                      /\ merged[j].serial = all[k].serial

\* more candidates than K, none a hit, the first returned one the lowest:
\* the K others get a row
C19_Witness ==
    /\ agg.done
    /\ Len(agg.results) > TopK(prog)
    /\ Len(MergeRowsWritten) = TopK(prog)
    /\ 1 \notin TopIndices(AggAll)
    /\ \A j \in DOMAIN agg.rows : agg.rows[j].serial # agg.results[1].serial_number

(***************************************************************************)
(* C20: in the merge step a top-K candidate whose mark text is not a hit's *)
(* is labelled Below Threshold when its score is under the threshold and   *)
(* would otherwise carry its native status label.  As stated, the second   *)
(* case occurs when deduplication has removed a top-K candidate from the   *)
(* hits: the merge step then writes that candidate under its native status *)
(* label.                                                                  *)
(***************************************************************************)
\* indices of top-K candidates at or above the threshold that the dedup
\* loop dropped: no FuzzyHit row shows their serial number
DroppedTopHits(all) ==
    {k \in TopIndices(all) :
        /\ all[k].score >= FUZZY_THRESHOLD
        /\ \A j \in DOMAIN HitRowsWritten :
               HitRowsWritten[j].serial # all[k].serial}

MergeLabelRule(merged, all) ==
    \A j \in DOMAIN merged :
        \E k \in TopIndices(all) :
            /\ merged[j].mark = all[k].mark
            /\ merged[j].serial = all[k].serial
            /\ merged[j].score = all[k].score
            /\ merged[j].status = IF all[k].score < FUZZY_THRESHOLD
                                  THEN "Below Threshold" ELSE all[k].status

C20_NativeLabelAfterDedup ==
    agg.done =>
        LET all == AggAll
            merged == MergeRowsWritten
        IN /\ MergeLabelRule(merged, all)
           /\ \A k \in DroppedTopHits(all) :
                  \E j \in DOMAIN merged :
                      /\ merged[j].serial = all[k].serial
                      /\ merged[j].status = all[k].status

(***************************************************************************)
(* C20, amended: the merge step labels its rows by the same rule, and      *)
(* every row it writes has a score under the threshold and the label       *)
(* Below Threshold: a candidate at or above the threshold is a hit, so its *)
(* mark text is a hit's and the merge step skips it, also when the dedup   *)
(* loop dropped it.  No row carries a native status label from the merge.  *)
(***************************************************************************)
C20_MergeRowsBelowThreshold ==
    agg.done =>
        LET all == AggAll
            merged == MergeRowsWritten
        IN /\ MergeLabelRule(merged, all)
           /\ \A j \in DOMAIN merged :
                  /\ merged[j].score < FUZZY_THRESHOLD
                  /\ merged[j].status = "Below Threshold"
                  /\ merged[j].kind = "BelowThreshold"
           /\ \A k \in DroppedTopHits(all) :
                  \A j \in DOMAIN merged : merged[j].mark # all[k].mark

\* the dedup loop dropped a top-K hit and the merge step wrote a row
C20_Witness ==
    /\ agg.done
    /\ DroppedTopHits(AggAll) # {}
    /\ Len(MergeRowsWritten) > 0

(***************************************************************************)
(* C21: when the provider answers a pair with a successful but empty       *)
(* candidate list, exactly one row is written for the pair: a NoMatch      *)
(* sentinel with score 0 and no serial number; no FuzzyHit row and no row  *)
(* of the top-K merge is written for it.                                   *)
(***************************************************************************)
C21_EmptyResultOneSentinel ==
    (agg.done /\ agg.results = <<>>) =>
        /\ Len(agg.rows) = 1
        /\ agg.rows[1].kind = "NoMatch"
        /\ agg.rows[1].target = agg.target
        /\ agg.rows[1].stem = agg.stem
        /\ agg.rows[1].mark = NoTrademarksText
        /\ agg.rows[1].score = 0
        /\ agg.rows[1].serial = ""
        /\ agg.rows[1].status = ""

\* an aggregated pair whose candidate list was empty
C21_Witness ==
    /\ agg.done
    /\ agg.results = <<>>
    /\ Len(agg.rows) = 1
    /\ agg.rows[1].kind = "NoMatch"

(***************************************************************************)
(* C22: processing is strictly sequential in input order.  A step issues   *)
(* at most one provider call and completes it; rows are only appended;     *)
(* the exact pass walks the whole pair list before the fuzzy pass starts   *)
(* at its first pair, so every exact-check row precedes every fuzzy-pass   *)
(* row; the fuzzy pass advances by one pair per step and the rows a step   *)
(* appends are those of its pair, so the rows of pair i precede the rows   *)
(* of pair j for i < j.                                                    *)
(***************************************************************************)
\* the rows a step appends
NewRows == SubSeq(report', Len(report) + 1, Len(report'))

SequentialStep ==
    /\ Len(calls') <= Len(calls) + 1
    /\ IsPrefix(calls, calls')
    /\ IsPrefix(report, report')
    /\ pc' = "exact" => pc \in {"start", "exact"}
    /\ pc' = "fuzzy" => pc \in {"exact", "fuzzy"}
    /\ pc = "exact" =>
          /\ \A k \in DOMAIN NewRows :
                 /\ NewRows[k].stem = "EXACT"
                 /\ NewRows[k].target = search_pairs[idx][1]
          /\ Len(calls') > Len(calls) => calls'[Len(calls')].phase = "exact"
          /\ pc' = "exact" => idx' = idx + 1
          /\ pc' = "fuzzy" => idx = Len(search_pairs) /\ idx' = 1
    /\ pc = "fuzzy" =>
          /\ \A k \in DOMAIN NewRows :
                 /\ NewRows[k].target = search_pairs[idx][1]
                 /\ NewRows[k].stem = search_pairs[idx][2]
          /\ Len(calls') = Len(calls) + 1
          /\ calls'[Len(calls')].phase = "fuzzy"
          /\ response'.fault = calls'[Len(calls')].fault
          /\ pc' = "fuzzy" => idx' = idx + 1
          /\ pc' = "done" => idx = Len(search_pairs)

C22_SequentialInInputOrder == [][SequentialStep]_vars

\* a finished run over two pairs of different targets: an exact row, then
\* a row of the first pair, then a row of the second pair
C22_Witness ==
    /\ pc = "done"
    /\ Len(search_pairs) = 2
    /\ search_pairs[1][1] # search_pairs[2][1]
    /\ \E i, j, k \in DOMAIN report :
          /\ i < j /\ j < k
          /\ report[i].kind = "Exact"
          /\ report[j].kind = "FuzzyHit"
          /\ report[j].target = search_pairs[1][1]
          /\ report[k].kind \in {"FuzzyHit", "BelowThreshold"}
          /\ report[k].target = search_pairs[2][1]

(***************************************************************************)
(* C23: for every description and every class code of interest, the code   *)
(* is among the inferred classes iff the description mentions              *)
(* "class <code>" (whatever the case) or holds the "position 1" marker and *)
(* a keyword of the code's group; a group keyword without the marker and   *)
(* without an explicit mention infers nothing.  The result holds no code   *)
(* twice, is a subset of {35, 41, 42}, is empty for the empty description  *)
(* and is that of the record's own description, whatever was tagged        *)
(* before.                                                                 *)
(***************************************************************************)
GroupOf(c) == IF c = "35" THEN Kw35 ELSE IF c = "41" THEN Kw41 ELSE Kw42

GroupWord(description, c) ==
    \E k \in DOMAIN GroupOf(c) : Mentions(description, GroupOf(c)[k])

C23_ClassInference ==
    tags.done =>
        LET d == tags.description
            cls == tags.classes
        IN /\ \A c \in ClassesOfInterest :
                  c \in Range(cls) <=>
                      \/ Mentions(d, "class " \o c)
                      \/ Mentions(d, "position 1") /\ GroupWord(d, c)
           /\ \A i, j \in DOMAIN cls : cls[i] = cls[j] => i = j
           /\ Range(cls) \subseteq ClassesOfInterest
           /\ d = "" => cls = <<>>

\* a group keyword without the marker and without an explicit mention
C23_Witness ==
    /\ tags.done
    /\ GroupWord(tags.description, "42")
    /\ ~Mentions(tags.description, "position 1")
    /\ ~Mentions(tags.description, "class 42")
    /\ tags.classes = <<>>

(***************************************************************************)
(* C24: the report is append-only during a run.  The header is written     *)
(* once, before any data row; in every later state the rows already        *)
(* written are a prefix of the current rows, so no row is removed,         *)
(* rewritten or reordered, also when a provider call fails or the run      *)
(* aborts.                                                                 *)
(***************************************************************************)
AppendOnlyStep ==
    /\ IsPrefix(report, report')
    /\ header # <<>> => header' = header
    /\ pc' = "crashed" => report' = report
    /\ Len(report') > Len(report) => header # <<>>

C24_ReportAppendOnly ==
    /\ [](report # <<>> => header # <<>>)
    /\ [][AppendOnlyStep]_vars

\* a run that died on an exception after rows had been written
C24_Witness ==
    /\ pc = "crashed"
    /\ header # <<>>
    /\ Len(report) >= 2
    /\ calls[Len(calls)].phase = "fuzzy"

(***************************************************************************)
(* C25: the Description column of a row is the candidate's description     *)
(* unchanged when it has at most 200 characters, and otherwise its first   *)
(* 200 characters followed by "..."; a description of exactly 200          *)
(* characters is not truncated and the column never exceeds 203            *)
(* characters.                                                             *)
(***************************************************************************)
C25_DescriptionExcerpt ==
    tags.done =>
        LET d == tags.description
            col == tags.excerpt
        IN /\ Len(d) <= 200 => col = d
           /\ Len(d) > 200 =>
                  /\ Len(col) = 203
                  /\ SubSeq(col, 1, 200) = SubSeq(d, 1, 200)
                  /\ SubSeq(col, 201, 203) = "..."
           /\ Len(col) <= 203

\* a description of exactly 200 characters, written whole
C25_Witness ==
    /\ tags.done
    /\ Len(tags.description) = 200
    /\ tags.excerpt = tags.description

(***************************************************************************)
(* C26: for a pair whose provider response is not empty, a score-0         *)
(* "-- No matches --" sentinel row is written iff no candidate reaches the *)
(* threshold, and it is written before the pair's Below Threshold rows: a  *)
(* pair with candidates but no hit gets the sentinel row and, after it,    *)
(* between one and K Below Threshold rows.                                 *)
(***************************************************************************)
IsNoMatchesRow(r) ==
    r.kind = "NoMatch" /\ r.mark = NoMatchesText /\ r.score = 0

C26_NoHitsSentinelFirst ==
    (agg.done /\ agg.results # <<>>) =>
        LET all == AggAll
            rows == agg.rows
            nohit == \A k \in DOMAIN all : all[k].score < FUZZY_THRESHOLD
        IN /\ (\E k \in DOMAIN rows : IsNoMatchesRow(rows[k])) <=> nohit
           /\ \A k \in DOMAIN rows : IsNoMatchesRow(rows[k]) => k = 1
           /\ nohit =>
                  /\ Len(rows) >= 2
                  /\ Len(rows) <= 1 + TopK(prog)
                  /\ \A k \in 2..Len(rows) :
                         /\ rows[k].kind = "BelowThreshold"
                         /\ rows[k].status = "Below Threshold"

\* candidates but no hit: the sentinel row, then K Below Threshold rows
C26_Witness ==
    /\ agg.done
    /\ Len(agg.results) > TopK(prog)
    /\ Len(agg.rows) = 1 + TopK(prog)
    /\ IsNoMatchesRow(agg.rows[1])
    /\ agg.rows[2].kind = "BelowThreshold"

(***************************************************************************)
(* C27: rows written by the fuzzy pass are never counted as an exact match *)
(* by the verdict computation, whatever the stem: a step of the fuzzy      *)
(* pass, also one for a stem whose text is "EXACT", never turns the        *)
(* verdict of a target into Blocked.                                       *)
(***************************************************************************)
FuzzyStepNeverBlocks ==
    pc = "fuzzy" =>
        \A d \in Dashboards :
            Readable(d, header) =>
                \A name \in target_names(report') :
                    verdict(d, report', name) = Blocked
                        => verdict(d, report, name) = Blocked

C27_FuzzyRowsNeverExact == [][FuzzyStepNeverBlocks]_vars

(***************************************************************************)
(* C28: in the class-aware search only the first 50 items of a stem's      *)
(* response are scored: the rows of the pair are those of the 50-item      *)
(* prefix, so hits, deduplication and top-K come from it, and a candidate  *)
(* at position 51 or later appears in no row, whatever its score.          *)
(***************************************************************************)
Prefix50(results) == SubSeq(results, 1, Min(50, Len(results)))

C28_OnlyFirstFiftyScored ==
    (agg.done /\ prog = "byclass") =>
        LET kept == Prefix50(agg.results) IN
        /\ agg.rows = ProcessResults(prog, agg.target, agg.stem, kept)
        /\ \A j \in DOMAIN agg.rows :
               agg.rows[j].kind \notin Sentinels =>
                   \E k \in DOMAIN kept :
                       /\ kept[k].serial_number = agg.rows[j].serial
                       /\ kept[k].keyword = agg.rows[j].mark

\* the marked candidate at position 51 scores 100 and has no row
C28_Witness ==
    /\ agg.done
    /\ prog = "byclass"
    /\ Len(agg.results) >= 51
    /\ agg.results[51] = MarkedCandidate
    /\ Components(MarkedCandidate.keyword) = <<100, 100, 100>>
    /\ Len(agg.rows) > 0
    /\ \A j \in DOMAIN agg.rows : agg.rows[j].serial # "S1"
(***************************************************************************)
(* C29: for every search result passed to analyze_results the returned     *)
(* conflict_count is the length of potential_conflicts; a result with an   *)
(* "error" key, a result that is no dict or is malformed, and a zero count *)
(* give conflict_count 0 with an empty list; and the loop over the names   *)
(* yields exactly one analysis per name, in the order of the names, also   *)
(* when searches fail.                                                     *)
(***************************************************************************)
C29_OneAnalysisPerResult ==
    LET which == tool.which
        \* the result lacks the key the tool reads, or its "trademarks" is
        \* not a list of dicts
        Malformed(r) ==
            \/ r.kind # "dict"
            \/ which = "uspto" /\ ~r.has_trademarks
            \/ which = "marker" /\ (~r.has_count \/ ~r.has_trademarks)
            \/ r.has_trademarks /\ ~Iterable(r)
        \* the result reports no match
        ZeroCount(r) ==
            \/ which = "marker" /\ r.has_count /\ r.count = 0
            \/ r.has_trademarks /\ r.is_list /\ r.trademarks = <<>>
    IN /\ Len(tool.results) = Len(tool.searched)
       /\ \A k \in DOMAIN tool.results :
              LET analysis == tool.results[k]
                  r == tool.returned[k]
              IN /\ analysis.name = tool.names[k]
                 /\ analysis.conflict_count
                        = Len(analysis.potential_conflicts)
                 /\ (r.error \/ Malformed(r) \/ ZeroCount(r)) =>
                        /\ analysis.conflict_count = 0
                        /\ analysis.potential_conflicts = <<>>
       /\ (tool.at = "done" /\ tool.searched # <<>>) =>
              Len(tool.results) = Len(tool.names)

(***************************************************************************)
(* C30: in both tools no search is issued and no result file is written    *)
(* unless the connection test succeeded; a test answered with 401, with    *)
(* another status than 200 or with a transport error ends the program      *)
(* with status 1 before the first search; and once the searches have       *)
(* started, a search answered with 401 returns an error value and the      *)
(* remaining names are still searched.                                     *)
(***************************************************************************)
C30_ConnectionTestGuardsSearches ==
    LET ok == tool.tested # <<>> /\ test_api_connection(tool.tested[1])
    IN /\ (tool.searched # <<>> \/ tool.saved # <<>>) => ok
       /\ (tool.tested # <<>> /\ ~ok) =>
              /\ tool.at = "exit"
              /\ tool.exit_status = 1
              /\ tool.searched = <<>>
              /\ tool.saved = <<>>
       /\ \A k \in DOMAIN tool.answers :
              (~tool.answers[k].fault /\ tool.answers[k].status = 401) =>
                  /\ tool.returned[k].error
                  /\ tool.at \in {"done", "exit"} =>
                         tool.searched = tool.names

====
